---- MODULE Spec2Model ----
(***************************************************************************)
(* Model of edx/analytics/tasks/event_analysis.py: the segment classifier  *)
(* (get_numeric_slug), the key canonicalizer (canonicalize_key), the       *)
(* structural walker (get_key_names), the event-type canonicalizer         *)
(* (canonicalize_event_type), the mapper and the reducer of                *)
(* EventAnalysisTask.                                                      *)
(*                                                                         *)
(* A Python string is a sequence of one-character strings, so that         *)
(* isdigit, split, replace, startswith and format are computed character   *)
(* by character.  Python's None, where a string is expected, is the        *)
(* one-element sequence <<"None">>, which no string equals because "None"  *)
(* is not a character.                                                     *)
(***************************************************************************)
EXTENDS Integers, Sequences, FiniteSets, TLC

VARIABLES pc, input, ret, todo, counts, output_file

vars == <<pc, input, ret, todo, counts, output_file>>

----------------------------------------------------------------------------
(* Characters and strings *)

None == <<"None">>

DigitChars == <<"0", "1", "2", "3", "4", "5", "6", "7", "8", "9">>

Digits == {DigitChars[i] : i \in 1..10}

\* A byte outside ASCII (one character of the model).
NonAscii == "xE9"

\* The characters of the model in code-point order (what sorted() compares).
CharOrder ==
    <<" ", "\"", "(", ")", "+", "-", ".", "/",
      "0", "1", "2", "3", "4", "5", "6", "7", "8", "9",
      "A", "B", "C", "D", "E", "F", "G", "H", "I", "J", "K", "L", "M",
      "N", "O", "P", "Q", "R", "S", "T", "U", "V", "W", "X", "Y", "Z",
      "[", "]", "_",
      "a", "b", "c", "d", "e", "f", "g", "h", "i", "j", "k", "l", "m",
      "n", "o", "p", "q", "r", "s", "t", "u", "v", "w", "x", "y", "z",
      "|", "xE9">>

Ord(c) == CHOOSE i \in 1..Len(CharOrder) : CharOrder[i] = c

\* s < t for Python strings: lexicographic by code point.
RECURSIVE StrLess(_, _)
StrLess(s, t) ==
    IF t = <<>> THEN FALSE
    ELSE IF s = <<>> THEN TRUE
    ELSE IF s[1] = t[1] THEN StrLess(Tail(s), Tail(t))
    ELSE Ord(s[1]) < Ord(t[1])

\* str(n) for a natural number n.
RECURSIVE DecStr(_)
DecStr(n) ==
    IF n < 10 THEN <<DigitChars[n + 1]>>
    ELSE DecStr(n \div 10) \o <<DigitChars[(n % 10) + 1]>>

UpperChars ==
    <<"A", "B", "C", "D", "E", "F", "G", "H", "I", "J", "K", "L", "M",
      "N", "O", "P", "Q", "R", "S", "T", "U", "V", "W", "X", "Y", "Z">>

LowerChars ==
    <<"a", "b", "c", "d", "e", "f", "g", "h", "i", "j", "k", "l", "m",
      "n", "o", "p", "q", "r", "s", "t", "u", "v", "w", "x", "y", "z">>

\* s.lower()
lower(s) ==
    [i \in 1..Len(s) |->
        IF \E k \in 1..26 : UpperChars[k] = s[i]
        THEN LowerChars[CHOOSE k \in 1..26 : UpperChars[k] = s[i]]
        ELSE s[i]]

\* s.strip(): leading and trailing whitespace removed.
RECURSIVE lstrip(_)
lstrip(s) == IF s # <<>> /\ s[1] = " " THEN lstrip(Tail(s)) ELSE s

RECURSIVE rstrip(_)
rstrip(s) == IF s # <<>> /\ s[Len(s)] = " " THEN rstrip(SubSeq(s, 1, Len(s) - 1)) ELSE s

strip(s) == rstrip(lstrip(s))

\* Whether every character of s is ASCII.
is_ascii(s) == \A i \in 1..Len(s) : s[i] # NonAscii

\* s.isdigit(): non-empty and every character a decimal digit.
isdigit(s) == Len(s) > 0 /\ \A i \in 1..Len(s) : s[i] \in Digits

startswith(s, p) == Len(s) >= Len(p) /\ SubSeq(s, 1, Len(p)) = p

\* s.split(d) for a one-character delimiter d.
RECURSIVE split(_, _)
split(s, d) ==
    IF \A i \in 1..Len(s) : s[i] # d THEN <<s>>
    ELSE LET k == CHOOSE i \in 1..Len(s) : s[i] = d /\ \A j \in 1..(i - 1) : s[j] # d
         IN <<SubSeq(s, 1, k - 1)>> \o split(SubSeq(s, k + 1, Len(s)), d)

\* d.join(parts)
RECURSIVE join(_, _)
join(d, parts) ==
    IF parts = <<>> THEN <<>>
    ELSE IF Len(parts) = 1 THEN parts[1]
    ELSE parts[1] \o d \o join(d, Tail(parts))

\* s.replace(old, new) for a non-empty old: every non-overlapping occurrence,
\* scanning from the left.
RECURSIVE replace(_, _, _)
replace(s, old, new) ==
    IF Len(s) < Len(old) THEN s
    ELSE IF SubSeq(s, 1, Len(old)) = old
         THEN new \o replace(SubSeq(s, Len(old) + 1, Len(s)), old, new)
         ELSE <<s[1]>> \o replace(Tail(s), old, new)

\* sub in s
contains(s, sub) ==
    \E i \in 1..(Len(s) - Len(sub) + 1) : SubSeq(s, i, i + Len(sub) - 1) = sub

\* sorted(names): insertion sort by StrLess.
RECURSIVE insert(_, _)
insert(n, sortedNames) ==
    IF sortedNames = <<>> THEN <<n>>
    ELSE IF StrLess(n, sortedNames[1]) THEN <<n>> \o sortedNames
    ELSE <<sortedNames[1]>> \o insert(n, Tail(sortedNames))

RECURSIVE sorted(_)
sorted(names) ==
    IF names = <<>> THEN <<>> ELSE insert(names[1], sorted(Tail(names)))

----------------------------------------------------------------------------
(* user_info: a dict from hint name to value, or None.  The dict is the     *)
(* sequence of its <<name, value>> items in iteration order, names unique;  *)
(* given = FALSE is None.                                                   *)

NoUserInfo == [given |-> FALSE, items |-> <<>>]

iterkeys(user_info) == [i \in 1..Len(user_info.items) |-> user_info.items[i][1]]

\* user_info.get(name) for a name the dict holds.
get(user_info, name) ==
    LET i == CHOOSE j \in 1..Len(user_info.items) : user_info.items[j][1] = name
    IN user_info.items[i][2]

----------------------------------------------------------------------------
(* get_numeric_slug *)

S_int == <<"(", "i", "n", "t">>
S_hex == <<"(", "h", "e", "x">>
S_alnum == <<"(", "a", "l", "n", "u", "m">>

hex_digits == Digits \cup {"a", "b", "c", "d", "e", "f", "A", "B", "C", "D", "E", "F"}

\* The loop over sorted(user_info.iterkeys()): the first name whose value
\* equals val_str, or None.
RECURSIVE first_match(_, _, _)
first_match(names, user_info, val_str) ==
    IF names = <<>> THEN None
    ELSE IF val_str = get(user_info, names[1]) THEN <<"(">> \o names[1] \o <<")">>
    ELSE first_match(Tail(names), user_info, val_str)

slug_by_shape(value_string) ==
    IF isdigit(value_string)
    THEN S_int \o DecStr(Len(value_string)) \o <<")">>
    ELSE IF \A i \in 1..Len(value_string) : value_string[i] \in hex_digits
    THEN S_hex \o DecStr(Len(value_string)) \o <<")">>
    ELSE IF \E i \in 1..Len(value_string) : value_string[i] \in Digits
    THEN S_alnum \o DecStr(Len(value_string)) \o <<")">>
    ELSE value_string

get_numeric_slug_shape_first(value_string, user_info) ==
    IF Len(value_string) = 0 THEN <<>>
    ELSE IF slug_by_shape(value_string) # value_string THEN slug_by_shape(value_string)
    ELSE LET m == IF user_info.given
                  THEN first_match(sorted(iterkeys(user_info)), user_info, value_string)
                  ELSE None
         IN IF m # None THEN m ELSE value_string

get_numeric_slug(value_string, user_info) ==
    IF Len(value_string) = 0 THEN <<>>
    ELSE LET m == IF user_info.given
                  THEN first_match(sorted(iterkeys(user_info)), user_info, value_string)
                  ELSE None
         IN IF m # None THEN m ELSE slug_by_shape(value_string)

----------------------------------------------------------------------------
(* String literals of canonicalize_event_type *)

S_courses == <<"c", "o", "u", "r", "s", "e", "s">>
S_course_id == <<"(", "c", "o", "u", "r", "s", "e", "_", "i", "d", ")">>
S_slash_courses_slash == <<"/", "c", "o", "u", "r", "s", "e", "s", "/">>
S_xblock == <<"x", "b", "l", "o", "c", "k">>
S_handler == <<"h", "a", "n", "d", "l", "e", "r">>
S_handler_noauth == <<"h", "a", "n", "d", "l", "e", "r", "_", "n", "o", "a", "u", "t", "h">>
S_xblock_loc == <<"(", "x", "b", "l", "o", "c", "k", "-", "l", "o", "c", ")">>
S_submission_history == <<"s", "u", "b", "m", "i", "s", "s", "i", "o", "n", "_", "h", "i", "s", "t", "o", "r", "y">>
S_maybe_username == <<"(", "m", "a", "y", "b", "e", "_", "u", "s", "e", "r", "n", "a", "m", "e", ")">>
S_block_loc == <<"(", "b", "l", "o", "c", "k", "-", "l", "o", "c", ")">>
S_jump_to_id == <<"j", "u", "m", "p", "_", "t", "o", "_", "i", "d">>
S_block_id == <<"(", "b", "l", "o", "c", "k", "-", "i", "d", ")">>
S_jump_to == <<"j", "u", "m", "p", "_", "t", "o">>
S_courseware == <<"c", "o", "u", "r", "s", "e", "w", "a", "r", "e">>
S_courseware_loc == <<"(", "c", "o", "u", "r", "s", "e", "w", "a", "r", "e", "-", "l", "o", "c", ")">>
S_xqueue == <<"x", "q", "u", "e", "u", "e">>
S_score_update == <<"s", "c", "o", "r", "e", "_", "u", "p", "d", "a", "t", "e">>
S_ungraded_response == <<"u", "n", "g", "r", "a", "d", "e", "d", "_", "r", "e", "s", "p", "o", "n", "s", "e">>
S_wiki == <<"w", "i", "k", "i">>
S_moment_js == <<"m", "o", "m", "e", "n", "t", ".", "j", "s">>
S_wikislug == <<"(", "w", "i", "k", "i", "s", "l", "u", "g", ")">>
S_discussion == <<"d", "i", "s", "c", "u", "s", "s", "i", "o", "n">>
S_threads == <<"t", "h", "r", "e", "a", "d", "s">>
S_discussion_id == <<"(", "d", "i", "s", "c", "u", "s", "s", "i", "o", "n", "-", "i", "d", ")">>
S_forum == <<"f", "o", "r", "u", "m">>
S_inline == <<"i", "n", "l", "i", "n", "e">>
S_forum_id == <<"(", "f", "o", "r", "u", "m", "-", "i", "d", ")">>
S_pdfbook == <<"p", "d", "f", "b", "o", "o", "k">>
S_chapter == <<"c", "h", "a", "p", "t", "e", "r">>
S_info == <<"i", "n", "f", "o">>
S_progress == <<"p", "r", "o", "g", "r", "e", "s", "s">>
S_course_wiki == <<"c", "o", "u", "r", "s", "e", "_", "w", "i", "k", "i">>
S_about == <<"a", "b", "o", "u", "t">>
S_teams == <<"t", "e", "a", "m", "s">>

----------------------------------------------------------------------------
(* canonicalize_event_type *)

\* Python's 0-based index and slice on a list.
At(v, i) == v[i + 1]

slice(v, a, b) == SubSeq(v, a + 1, b)

setitem(v, i, x) == [v EXCEPT ![i + 1] = x]

\* The result of a route handler that returns None.
Excluded == <<None>>

\* opaque_key_util.COURSE_REGEX.match(event_type).group('course_id'), or None
\* when the pattern does not match: the non-empty segment that follows a
\* leading "/courses/".
COURSE_REGEX_match(event_type) ==
    IF startswith(event_type, S_slash_courses_slash)
    THEN LET rest == SubSeq(event_type, Len(S_slash_courses_slash) + 1, Len(event_type))
             seg == split(rest, "/")[1]
         IN IF Len(seg) > 0 THEN seg ELSE None
    ELSE None

\* Lines 399-404: stub the course id and split on "/".
stub_and_split(event_type) ==
    LET course_id_string == COURSE_REGEX_match(event_type)
        stubbed == IF course_id_string # None
                   THEN replace(event_type, course_id_string, S_course_id)
                   ELSE event_type
    IN split(stubbed, "/")

\* route_xblock with the exclusion tested inside the handler condition: only
\* handler calls are excluded.
route_xblock_exclude_handlers_only(v, exclude_excluded, disable_slugging) ==
    IF Len(v) >= 6 /\ At(v, 5) \in {S_handler, S_handler_noauth}
    THEN IF exclude_excluded THEN Excluded
         ELSE IF ~disable_slugging THEN setitem(v, 4, S_xblock_loc)
         ELSE v
    ELSE v

route_xblock(v, exclude_excluded, disable_slugging) ==
    IF exclude_excluded THEN Excluded
    ELSE IF Len(v) >= 6 /\ At(v, 5) \in {S_handler, S_handler_noauth} /\ ~disable_slugging
    THEN setitem(v, 4, S_xblock_loc)
    ELSE v

route_submission_history(v, exclude_excluded, disable_slugging) ==
    IF Len(v) >= 5 /\ ~disable_slugging
    THEN slice(v, 0, 3) \o <<S_maybe_username, S_block_loc>>
    ELSE v

route_jump_to_id(v, exclude_excluded, disable_slugging) ==
    IF Len(v) = 5 /\ ~disable_slugging THEN setitem(v, 4, S_block_id) ELSE v

route_jump_to_exclusion_after_slugging(v, exclude_excluded, disable_slugging) ==
    IF ~disable_slugging
    THEN IF exclude_excluded THEN Excluded ELSE slice(v, 0, 3) \o <<S_block_loc>>
    ELSE v

route_jump_to(v, exclude_excluded, disable_slugging) ==
    IF exclude_excluded THEN Excluded
    ELSE IF ~disable_slugging THEN slice(v, 0, 3) \o <<S_block_loc>>
    ELSE v

route_courseware(v, exclude_excluded, disable_slugging) ==
    IF ~disable_slugging THEN slice(v, 0, 4) \o <<S_courseware_loc>> ELSE v

route_xqueue_first_trailing(v, exclude_excluded, disable_slugging) ==
    IF exclude_excluded THEN Excluded
    ELSE LET last == Len(v) - 1
         IN IF /\ last >= 6
               /\ At(v, last) \in {S_score_update, S_ungraded_response}
               /\ ~disable_slugging
            THEN slice(v, 0, 4) \o <<S_block_loc>> \o slice(v, last, Len(v))
            ELSE v

route_xqueue(v, exclude_excluded, disable_slugging) ==
    IF exclude_excluded THEN Excluded
    ELSE LET last == Len(v) - 1
         IN IF /\ last >= 6
               /\ At(v, last) \in {S_score_update, S_ungraded_response}
               /\ ~disable_slugging
            THEN slice(v, 0, 5) \o <<S_block_loc>> \o slice(v, last, Len(v))
            ELSE v

\* values[index] = '(wikislug)' for index in range(4, last + 1)
wikislug_range(v, last) ==
    [i \in 1..Len(v) |-> IF (i - 1) >= 4 /\ (i - 1) <= last THEN S_wikislug ELSE v[i]]

route_wiki_truncate(v, exclude_excluded, disable_slugging) ==
    LET last0 == Len(v) - 1
        last1 == IF Len(At(v, last0)) = 0 THEN last0 - 1 ELSE last0
        last2 == IF At(v, last1) = S_moment_js THEN last1 - 1 ELSE last1
        commands == {index \in 4..last2 : startswith(At(v, index), <<"_">>)}
    IN IF commands # {}
       THEN LET index == CHOOSE i \in commands : \A j \in commands : i <= j
            IN IF exclude_excluded THEN slice(v, 0, index)
               ELSE IF ~disable_slugging THEN wikislug_range(v, index - 1) ELSE v
       ELSE IF ~disable_slugging THEN wikislug_range(v, last2) ELSE v

route_wiki(v, exclude_excluded, disable_slugging) ==
    LET last0 == Len(v) - 1
        \* Skip a trailing empty slash.
        last1 == IF Len(At(v, last0)) = 0 THEN last0 - 1 ELSE last0
        last2 == IF At(v, last1) = S_moment_js THEN last1 - 1 ELSE last1
        commands == {index \in 4..last2 : startswith(At(v, index), <<"_">>)}
    IN IF commands # {}
       THEN LET index == CHOOSE i \in commands : \A j \in commands : i <= j
            IN IF exclude_excluded THEN Excluded
               ELSE IF ~disable_slugging THEN wikislug_range(v, index - 1) ELSE v
       ELSE IF ~disable_slugging THEN wikislug_range(v, last2) ELSE v

route_discussion(v, exclude_excluded, disable_slugging) ==
    LET v1 == IF Len(v) >= 6 /\ At(v, 5) = S_threads
              THEN setitem(v, 4, S_discussion_id) ELSE v
    IN IF Len(v1) >= 7 /\ At(v1, 4) = S_forum /\ At(v1, 6) \in {S_threads, S_inline}
       THEN setitem(v1, 5, S_forum_id)
       ELSE v1

route_pdfbook(v, exclude_excluded, disable_slugging) ==
    IF exclude_excluded
    THEN IF Len(v) > 4 /\ Len(At(v, 4)) > 0 /\ ~isdigit(At(v, 4)) THEN Excluded
         ELSE IF Len(v) > 5 /\ Len(At(v, 5)) > 0 /\ At(v, 5) # S_chapter THEN Excluded
         ELSE IF Len(v) > 6 /\ Len(At(v, 6)) > 0 /\ ~isdigit(At(v, 6)) THEN Excluded
         ELSE IF Len(v) > 7 /\ Len(At(v, 7)) > 0 /\ ~isdigit(At(v, 7)) THEN Excluded
         ELSE IF Len(v) > 8 THEN Excluded
         ELSE v
    ELSE v

noise_routes == {S_info, S_progress, S_course_wiki, S_about, S_teams}

route_other_keep_trailing(v, exclude_excluded, disable_slugging) ==
    IF exclude_excluded
    THEN IF At(v, 3) \in noise_routes THEN v ELSE Excluded
    ELSE v

route_other(v, exclude_excluded, disable_slugging) ==
    IF exclude_excluded
    THEN IF At(v, 3) \in noise_routes
         THEN IF Len(v) > 4 THEN Excluded ELSE v
         ELSE Excluded
    ELSE v

\* Lines 406-509: the dispatch on the split, stubbed path.
route_dispatch(v, exclude_excluded, disable_slugging) ==
    IF At(v, 1) = S_courses
    THEN IF Len(v) > 3 /\ At(v, 2) = S_course_id
         THEN CASE At(v, 3) = S_xblock -> route_xblock(v, exclude_excluded, disable_slugging)
                [] At(v, 3) = S_submission_history ->
                       route_submission_history(v, exclude_excluded, disable_slugging)
                [] At(v, 3) = S_jump_to_id -> route_jump_to_id(v, exclude_excluded, disable_slugging)
                [] At(v, 3) = S_jump_to -> route_jump_to(v, exclude_excluded, disable_slugging)
                [] At(v, 3) = S_courseware -> route_courseware(v, exclude_excluded, disable_slugging)
                [] At(v, 3) = S_xqueue -> route_xqueue(v, exclude_excluded, disable_slugging)
                [] At(v, 3) = S_wiki -> route_wiki(v, exclude_excluded, disable_slugging)
                [] At(v, 3) = S_discussion -> route_discussion(v, exclude_excluded, disable_slugging)
                [] At(v, 3) = S_pdfbook -> route_pdfbook(v, exclude_excluded, disable_slugging)
                [] OTHER -> route_other(v, exclude_excluded, disable_slugging)
         ELSE IF exclude_excluded THEN Excluded ELSE v
    ELSE IF exclude_excluded THEN Excluded ELSE v

canonicalize_event_type(event_type, exclude_implicit, exclude_explicit, exclude_excluded, disable_slugging, user_info) ==
    IF ~startswith(event_type, <<"/">>)
    THEN IF exclude_implicit THEN None ELSE event_type
    ELSE IF exclude_explicit THEN None
    ELSE LET v == route_dispatch(stub_and_split(event_type), exclude_excluded, disable_slugging)
         IN IF v = Excluded THEN None
            ELSE join(<<"/">>, [i \in 1..Len(v) |-> get_numeric_slug(v[i], user_info)])

----------------------------------------------------------------------------
(* Bounded inputs *)

\* Longest segment drawn for the segment classifier.
MaxLen == 3

RECURSIVE StringsUpTo(_, _)
StringsUpTo(alphabet, n) ==
    IF n = 0 THEN {<<>>}
    ELSE LET shorter == StringsUpTo(alphabet, n - 1)
         IN shorter \cup {<<c>> \o s : c \in alphabet, s \in {t \in shorter : Len(t) = n - 1}}

S_username == <<"u", "s", "e", "r", "n", "a", "m", "e">>
S_user_id == <<"u", "s", "e", "r", "-", "i", "d">>

\* A digit, a lower and an upper case hexadecimal letter, a letter that is no
\* hexadecimal digit.
SlugAlphabet == {"7", "a", "F", "g"}

SlugStrings == StringsUpTo(SlugAlphabet, MaxLen)

SlugHintValues == {<<>>, <<"7">>, <<"7", "7">>, <<"g">>, <<"a", "F">>}

\* None, the empty dict, and every dict over the two names in both iteration orders.
SlugHints ==
    {NoUserInfo, [given |-> TRUE, items |-> <<>>]}
    \cup {[given |-> TRUE, items |-> <<<<n, x>>>>] : n \in {S_username, S_user_id}, x \in SlugHintValues}
    \cup {[given |-> TRUE, items |-> <<<<S_username, x>>, <<S_user_id, y>>>>] :
              x \in SlugHintValues, y \in SlugHintValues}
    \cup {[given |-> TRUE, items |-> <<<<S_user_id, x>>, <<S_username, y>>>>] :
              x \in SlugHintValues, y \in SlugHintValues}

----------------------------------------------------------------------------
(* The segment classifier applied to one segment *)

InitSlug ==
    /\ pc = "slug"
    /\ input \in [value_string : SlugStrings, user_info : SlugHints]
    /\ ret = <<>>
    /\ todo = <<>>
    /\ counts = <<>>
    /\ output_file = <<>>

call_get_numeric_slug ==
    /\ pc = "slug"
    /\ ret' = get_numeric_slug(input.value_string, input.user_info)
    /\ pc' = "slug_done"
    /\ UNCHANGED <<input, todo, counts, output_file>>

SpecSlug == InitSlug /\ [][call_get_numeric_slug]_vars

\* The hint names whose value equals the segment.
MatchingNames(s, user_info) ==
    {user_info.items[i][1] : i \in {j \in 1..Len(user_info.items) : user_info.items[j][2] = s}}

CharsOf(s) == {s[i] : i \in 1..Len(s)}

\* C1: get_numeric_slug returns the result of the first matching rule: empty
\* segment -> empty string; segment equal to a hint value -> "(" + the
\* smallest matching hint name + ")"; all decimal digits -> "(int<len>)"; all
\* hexadecimal digits -> "(hex<len>)"; at least one decimal digit ->
\* "(alnum<len>)"; otherwise the segment unchanged.
C1_FirstMatchingRule ==
    pc = "slug_done" =>
        LET s == input.value_string
            names == MatchingNames(s, input.user_info)
        IN IF s = <<>> THEN ret = <<>>
           ELSE IF input.user_info.given /\ names # {}
           THEN \E n \in names :
                    /\ \A m \in names : m = n \/ StrLess(n, m)
                    /\ ret = <<"(">> \o n \o <<")">>
           ELSE IF CharsOf(s) \subseteq Digits
           THEN ret = <<"(", "i", "n", "t">> \o DecStr(Len(s)) \o <<")">>
           ELSE IF CharsOf(s) \subseteq hex_digits
           THEN ret = <<"(", "h", "e", "x">> \o DecStr(Len(s)) \o <<")">>
           ELSE IF CharsOf(s) \cap Digits # {}
           THEN ret = <<"(", "a", "l", "n", "u", "m">> \o DecStr(Len(s)) \o <<")">>
           ELSE ret = s

\* An all-digit segment equal to the value of two hints was classified by the
\* smaller hint name although the dict iterates the larger one first.
C1_Witness ==
    /\ pc = "slug_done"
    /\ input.value_string = <<"7", "7">>
    /\ input.user_info.given
    /\ input.user_info.items = <<<<S_username, <<"7", "7">>>>, <<S_user_id, <<"7", "7">>>>>>
    /\ ret = <<"(">> \o S_user_id \o <<")">>

----------------------------------------------------------------------------
(* Bounded inputs of the event-type canonicalizer *)

\* Most segments drawn after the route tag (pdfbook, whose template is two
\* segments longer than any other route's, gets MaxTrail + 2).
MaxTrail == 3

S_play_video == <<"p", "l", "a", "y", "_", "v", "i", "d", "e", "o">>
S_static == <<"s", "t", "a", "t", "i", "c">>
S_c1 == <<"c", "1">>
S_b1 == <<"b", "1">>
S_bob == <<"b", "o", "b">>
S_ab12 == <<"a", "b", "1", "2">>
S_w1 == <<"w", "1">>
S_d1 == <<"d", "1">>
S_edit == <<"_", "e", "d", "i", "t">>
S_foo == <<"f", "o", "o">>

\* "/courses/c1/" + route + "/" + each trailing segment
CoursePath(route, trailing) ==
    S_slash_courses_slash \o S_c1 \o <<"/">> \o route
        \o IF trailing = <<>> THEN <<>> ELSE <<"/">> \o join(<<"/">>, trailing)

CoursePaths(routes, vocabulary, n) ==
    {CoursePath(r, t) : r \in routes, t \in StringsUpTo(vocabulary, n)}

ImplicitEventTypes == {<<>>, S_play_video, S_c1}

\* Explicit paths that are not /courses/<id>/<route>...
UnscopedPaths ==
    {<<"/">>, <<"/">> \o S_static \o <<"/">> \o S_c1, <<"/">> \o S_courses,
     S_slash_courses_slash, S_slash_courses_slash \o S_c1,
     S_slash_courses_slash \o S_c1 \o <<"/">>,
     S_slash_courses_slash \o <<"/">> \o S_info,
     <<"/">> \o S_static \o <<"/">> \o S_courses \o <<"/">> \o S_c1 \o <<"/">> \o S_info}

ExplicitEventTypes ==
    UnscopedPaths
    \cup CoursePaths({S_xblock}, {S_b1, S_handler, S_handler_noauth}, MaxTrail)
    \cup CoursePaths({S_submission_history, S_jump_to_id, S_jump_to, S_courseware},
                     {S_b1, S_bob}, MaxTrail)
    \cup CoursePaths({S_xqueue}, {<<"7">>, S_ab12, S_score_update, S_ungraded_response}, MaxTrail)
    \cup CoursePaths({S_wiki}, {<<>>, S_edit, S_moment_js, S_w1}, MaxTrail)
    \cup CoursePaths({S_discussion}, {S_forum, S_threads, S_inline, S_d1}, MaxTrail)
    \cup CoursePaths({S_pdfbook}, {<<>>, <<"7">>, S_chapter}, MaxTrail + 2)
    \cup CoursePaths(noise_routes \cup {S_foo, <<>>}, {<<>>, S_c1}, MaxTrail)

EventTypes == ImplicitEventTypes \cup ExplicitEventTypes

CanonHints ==
    {NoUserInfo,
     [given |-> TRUE, items |-> <<<<S_user_id, <<"7">>>>>>],
     [given |-> TRUE, items |-> <<<<S_username, S_score_update>>>>]}

----------------------------------------------------------------------------
(* The event-type canonicalizer applied to one event type *)

InitCanon ==
    /\ pc = "canon"
    /\ input \in [event_type : EventTypes, exclude_implicit : BOOLEAN,
                  exclude_explicit : BOOLEAN, exclude_excluded : BOOLEAN,
                  disable_slugging : BOOLEAN, user_info : CanonHints]
    /\ ret = <<>>
    /\ todo = <<>>
    /\ counts = <<>>
    /\ output_file = <<>>

call_canonicalize_event_type ==
    /\ pc = "canon"
    /\ ret' = canonicalize_event_type(input.event_type, input.exclude_implicit,
                                      input.exclude_explicit, input.exclude_excluded,
                                      input.disable_slugging, input.user_info)
    /\ pc' = "canon_done"
    /\ UNCHANGED <<input, todo, counts, output_file>>

SpecCanon == InitCanon /\ [][call_canonicalize_event_type]_vars

\* The split, course-id-stubbed path of the call's event type.
InputValues == stub_and_split(input.event_type)

IsExplicit == input.event_type # <<>> /\ input.event_type[1] = "/"

\* /courses/(course_id)/<route>...
CourseScoped ==
    /\ IsExplicit
    /\ Len(InputValues) > 3
    /\ InputValues[2] = S_courses
    /\ InputValues[3] = S_course_id

RouteTag == InputValues[4]

NamedHandlers ==
    {S_xblock, S_submission_history, S_jump_to_id, S_jump_to, S_courseware, S_xqueue,
     S_wiki, S_discussion, S_pdfbook}

\* C2: the same call with disable_slugging flipped returns None exactly when
\* this call returned None: the flag never changes whether an event is kept.
C2_SluggingNeverDecidesExclusion ==
    pc = "canon_done" =>
        ((ret = None) <=>
         (canonicalize_event_type(input.event_type, input.exclude_implicit,
                                  input.exclude_explicit, input.exclude_excluded,
                                  ~input.disable_slugging, input.user_info) = None))

\* An xblock handler call is kept with and without slugging, and the two
\* signatures differ.
C2_Witness ==
    /\ pc = "canon_done"
    /\ CourseScoped
    /\ RouteTag = S_xblock
    /\ input.disable_slugging
    /\ ret # None
    /\ canonicalize_event_type(input.event_type, input.exclude_implicit,
                               input.exclude_explicit, input.exclude_excluded,
                               FALSE, input.user_info) \notin {None, ret}

\* C3: with exclude_excluded set, a course-scoped path reaching the dispatch
\* (exclude_explicit unset: only then is the path stubbed and split) whose
\* route tag is no named handler is kept if and only if its route tag is one
\* of info, progress, course_wiki, about, teams and no segment follows it.
C3_NoiseRoutes ==
    (/\ pc = "canon_done"
     /\ input.exclude_excluded
     /\ ~input.exclude_explicit
     /\ CourseScoped
     /\ RouteTag \notin NamedHandlers)
    => ((ret # None) <=>
        (/\ RouteTag \in {<<"i", "n", "f", "o">>, S_progress, S_course_wiki, S_about, S_teams}
         /\ Len(InputValues) = 4))

\* /courses/c1/teams was kept under exclude_excluded.
C3_Witness ==
    /\ pc = "canon_done"
    /\ input.exclude_excluded
    /\ ~input.exclude_explicit
    /\ CourseScoped
    /\ RouteTag = S_teams
    /\ Len(InputValues) = 4
    /\ ret = S_slash_courses_slash \o S_course_id \o <<"/">> \o S_teams

Terminals == {S_score_update, S_ungraded_response}

\* C8 as claimed: with disable_slugging set, a kept course-scoped path is the
\* stubbed input path with every segment passed through get_numeric_slug and
\* rejoined with "/": no route placeholder, and as many segments as the input.
C8_DisableSluggingLeavesNoPlaceholder ==
    (/\ pc = "canon_done"
     /\ input.disable_slugging
     /\ CourseScoped
     /\ ret # None)
    => /\ ret = join(<<"/">>, [i \in 1..Len(InputValues) |->
                                   get_numeric_slug(InputValues[i], input.user_info)])
       /\ Len(split(ret, "/")) = Len(split(input.event_type, "/"))

\* C9 as claimed: /courses/<course>/xqueue/<s4>/<s5>/<terminal> with exclusion
\* and disable_slugging off comes back one segment shorter, <s4> and <s5>
\* collapsed into one placeholder, the terminal last.
C9_CollapsesSegmentsFourAndFive ==
    (/\ pc = "canon_done"
     /\ CourseScoped
     /\ RouteTag = S_xqueue
     /\ Len(InputValues) = 7
     /\ InputValues[7] \in Terminals
     /\ ~input.exclude_explicit
     /\ ~input.exclude_excluded
     /\ ~input.disable_slugging)
    => /\ ret # None
       /\ LET r == split(ret, "/")
          IN /\ Len(r) = 6
             /\ r[6] = InputValues[7]

\* C9 as amended: the signature keeps its seven segments; <s4> stays a segment
\* of its own, classified by get_numeric_slug; <s5> alone becomes (block-loc);
\* the terminal is last, verbatim unless a hint value equals it (then it is
\* that hint's placeholder).
C9_StubsSegmentFiveOnly ==
    (/\ pc = "canon_done"
     /\ CourseScoped
     /\ RouteTag = S_xqueue
     /\ Len(InputValues) = 7
     /\ InputValues[7] \in Terminals
     /\ ~input.exclude_explicit
     /\ ~input.exclude_excluded
     /\ ~input.disable_slugging)
    => /\ ret # None
       /\ LET r == split(ret, "/")
              hinted == MatchingNames(InputValues[7], input.user_info)
          IN /\ Len(r) = 7
             /\ SubSeq(r, 1, 4) = <<<<>>, S_courses, S_course_id, S_xqueue>>
             /\ r[5] = get_numeric_slug(InputValues[5], input.user_info)
             /\ MatchingNames(S_block_loc, input.user_info) = {} => r[6] = S_block_loc
             /\ hinted = {} => r[7] = InputValues[7]
             /\ hinted # {} => \E n \in hinted : r[7] = <<"(">> \o n \o <<")">>

\* /courses/c1/xqueue/7/ab12/score_update came back with seven segments.
C9_Witness ==
    /\ pc = "canon_done"
    /\ input.event_type = CoursePath(S_xqueue, <<<<"7">>, S_ab12, S_score_update>>)
    /\ ~input.exclude_explicit
    /\ ~input.exclude_excluded
    /\ ~input.disable_slugging
    /\ ~input.user_info.given
    /\ ret = S_slash_courses_slash \o S_course_id \o <<"/">> \o S_xqueue
                 \o <<"/", "(", "i", "n", "t", "1", ")", "/">> \o S_block_loc
                 \o <<"/">> \o S_score_update

\* The 1-based positions, at or after the segment following the route tag, of
\* the segments that begin with "_".
CommandPositions ==
    {i \in 5..Len(InputValues) : InputValues[i] # <<>> /\ InputValues[i][1] = "_"}

\* C10 as claimed: a course-scoped wiki path with a command segment, under
\* exclude_excluded, is kept, truncated before its first command segment.
C10_TruncatesBeforeCommand ==
    (/\ pc = "canon_done"
     /\ CourseScoped
     /\ RouteTag = S_wiki
     /\ CommandPositions # {}
     /\ input.exclude_excluded
     /\ ~input.exclude_explicit)
    => /\ ret # None
       /\ \E i \in CommandPositions :
              /\ \A j \in CommandPositions : i <= j
              /\ Len(split(ret, "/")) = i - 1

\* C10 as amended: a course-scoped wiki path with a command segment, under
\* exclude_excluded, is excluded.
C10_CommandsExcluded ==
    (/\ pc = "canon_done"
     /\ CourseScoped
     /\ RouteTag = S_wiki
     /\ CommandPositions # {}
     /\ input.exclude_excluded)
    => ret = None

\* /courses/c1/wiki/w1/_edit was excluded by the wiki handler itself.
C10_Witness ==
    /\ pc = "canon_done"
    /\ input.event_type = CoursePath(S_wiki, <<S_w1, S_edit>>)
    /\ input.exclude_excluded
    /\ ~input.exclude_explicit
    /\ ret = None

\* C12: with exclude_excluded set and exclude_explicit unset, an event type
\* beginning with "/" for which a signature is returned is course-scoped
\* (/courses/(course_id)/<route>...) and its route tag is none of xblock,
\* jump_to, xqueue: those three are excluded whatever follows the route tag.
C12_KeptExplicitIsCourseScoped ==
    (/\ pc = "canon_done"
     /\ input.exclude_excluded
     /\ ~input.exclude_explicit
     /\ IsExplicit
     /\ ret # None)
    => (CourseScoped /\ RouteTag \notin {S_xblock, S_jump_to, S_xqueue})

\* /courses/c1/jump_to_id/b1 was kept under exclude_excluded.
C12_Witness ==
    /\ pc = "canon_done"
    /\ input.exclude_excluded
    /\ ~input.exclude_explicit
    /\ input.event_type = CoursePath(S_jump_to_id, <<S_b1>>)
    /\ CourseScoped
    /\ RouteTag = S_jump_to_id
    /\ ret # None

----------------------------------------------------------------------------
(* String literals of canonicalize_key and get_key_names *)

S_input_id == <<"(", "i", "n", "p", "u", "t", "-", "i", "d", ")">>
S_dynamath == <<"_", "d", "y", "n", "a", "m", "a", "t", "h">>
S_comment == <<"_", "c", "o", "m", "m", "e", "n", "t">>
S_choiceinput == <<"_", "c", "h", "o", "i", "c", "e", "i", "n", "p", "u", "t", "_">>
S_emptydict == <<"(", "e", "m", "p", "t", "y", "d", "i", "c", "t", ")">>
S_TRIMMED == <<"(", "T", "R", "I", "M", "M", "E", "D", ")">>
S_url == <<"(", "u", "r", "l", ")">>
S_brackets == <<"[", "]">>
S_quoted == <<"-", "q", "u", "o", "t", "e", "d">>
S_contains == <<"c", "o", "n", "t", "a", "i", "n", "s", "-">>
S_unicode == <<"u", "n", "i", "c", "o", "d", "e">>
S_True == <<"T", "r", "u", "e">>
S_False == <<"F", "a", "l", "s", "e">>
S_POST == <<"P", "O", "S", "T">>
S_GET == <<"G", "E", "T">>
S_event == <<"e", "v", "e", "n", "t">>
S_context == <<"c", "o", "n", "t", "e", "x", "t">>
S_attested == <<"a", "t", "t", "e", "s", "t", "e", "d">>
S_rec1 == <<"e", "v", "e", "n", "t", ".", "e", "x", "p", "o", "r", "t", ".", "r", "e", "c", "o", "m", "m", "e", "n", "d", "a", "t", "i", "o", "n", "s">>
S_rec2 == <<"e", "v", "e", "n", "t", ".", "i", "n", "f", "o", "r", "m", "a", "t", "i", "o", "n", ".", "e", "x", "p", "o", "r", "t", ".", "r", "e", "c", "o", "m", "m", "e", "n", "d", "a", "t", "i", "o", "n", "s">>
S_rec3 == <<"e", "v", "e", "n", "t", ".", "e", "x", "p", "o", "r", "t", ".", "r", "e", "m", "o", "v", "e", "d", "_", "r", "e", "c", "o", "m", "m", "e", "n", "d", "a", "t", "i", "o", "n", "s">>
S_rec4 == <<"e", "v", "e", "n", "t", ".", "i", "n", "f", "o", "r", "m", "a", "t", "i", "o", "n", ".", "e", "x", "p", "o", "r", "t", ".", "r", "e", "m", "o", "v", "e", "d", "_", "r", "e", "c", "o", "m", "m", "e", "n", "d", "a", "t", "i", "o", "n", "s">>

----------------------------------------------------------------------------
(* canonicalize_key *)

\* [1234]?\d
is_index(t) ==
    \/ Len(t) = 1 /\ t[1] \in Digits
    \/ Len(t) = 2 /\ t[1] \in {"1", "2", "3", "4"} /\ t[2] \in Digits

\* (_dynamath|_comment|_choiceinput_.*)?$
is_input_id_suffix(rest) ==
    \/ rest = <<>>
    \/ rest = S_dynamath
    \/ rest = S_comment
    \/ startswith(rest, S_choiceinput)

\* The ways INPUT_ID_REGEX matches s: <<k, e>> where the greedy .+ takes
\* s[1..k], the group input_id is s[1..e] and the rest is an allowed suffix.
input_id_matches(s) ==
    {m \in (1..Len(s)) \X (1..Len(s)) :
        \E a \in 1..2, b \in 1..2 :
            /\ m[2] = m[1] + 2 + a + b
            /\ s[m[1] + 1] = "_"
            /\ is_index(SubSeq(s, m[1] + 2, m[1] + 1 + a))
            /\ s[m[1] + 2 + a] = "_"
            /\ is_index(SubSeq(s, m[1] + 3 + a, m[1] + 2 + a + b))
            /\ is_input_id_suffix(SubSeq(s, m[2] + 1, Len(s)))}

\* INPUT_ID_REGEX.match(s).group('input_id'), or None: the regex engine
\* backtracks the greedy .+ from the longest prefix down, so the first match
\* found is the one with the longest .+.
INPUT_ID_REGEX_match(s) ==
    LET ms == input_id_matches(s)
    IN IF ms = {} THEN None
       ELSE LET m == CHOOSE x \in ms : \A y \in ms : y[1] <= x[1]
            IN SubSeq(s, 1, m[2])

\* canonicalize_key returning delimiter.join(values): the parts are rejoined
\* without being classified.
canonicalize_key_join_unslugged(value_string) ==
    LET input_id_string == INPUT_ID_REGEX_match(value_string)
        value == IF input_id_string # None
                 THEN replace(value_string, input_id_string, S_input_id)
                 ELSE value_string
    IN IF contains(value, <<"_">>) THEN join(<<"_">>, split(value, "_"))
       ELSE IF contains(value, <<".">>) THEN join(<<".">>, split(value, "."))
       ELSE get_numeric_slug(value, NoUserInfo)

canonicalize_key(value_string) ==
    LET input_id_string == INPUT_ID_REGEX_match(value_string)
        value == IF input_id_string # None
                 THEN replace(value_string, input_id_string, S_input_id)
                 ELSE value_string
        slugs(parts) == [i \in 1..Len(parts) |-> get_numeric_slug(parts[i], NoUserInfo)]
    IN IF contains(value, <<"_">>) THEN join(<<"_">>, slugs(split(value, "_")))
       ELSE IF contains(value, <<".">>) THEN join(<<".">>, slugs(split(value, ".")))
       ELSE get_numeric_slug(value, NoUserInfo)

----------------------------------------------------------------------------
(* get_key_names *)

\* A value of a decoded event: [t |-> type(obj).__name__, v |-> ...] with v
\* the characters of a unicode, the number of an int, the truth value of a
\* bool, the <<key, value>> items of a dict in keys() order, the elements of
\* a list, and <<>> for None.
PyNone == [t |-> "NoneType", v |-> <<>>]

type_name(obj) ==
    CASE obj.t = "unicode" -> S_unicode
      [] obj.t = "int" -> <<"i", "n", "t">>
      [] obj.t = "bool" -> <<"b", "o", "o", "l">>

\* unicode(obj) of a leaf
unicode(obj) ==
    CASE obj.t = "unicode" -> obj.v
      [] obj.t = "int" -> DecStr(obj.v)
      [] obj.t = "bool" -> IF obj.v THEN S_True ELSE S_False

\* What a call returns when it raised UnicodeEncodeError instead.
Raised == <<<<"UnicodeEncodeError">>>>

\* result.extend(new_keys), an exception in either propagating.
extend(result, new_keys) ==
    IF result = Raised \/ new_keys = Raised THEN Raised ELSE result \o new_keys

url_prefixes == {S_rec1, S_rec2, S_rec3, S_rec4}

\* Lines 318-328: the loop over user_info.iterkeys().  '"{}"'.format(obj_str)
\* encodes obj_str to ASCII, which raises for a non-ASCII obj_str; it is
\* evaluated for every hint that is no exact match.
RECURSIVE leaf_entry_types_all_modes(_, _)
leaf_entry_types_all_modes(items, obj_str) ==
    IF items = <<>> THEN <<>>
    ELSE LET info_name == items[1][1]
             user_value == items[1][2]
             exact == IF user_value = obj_str THEN <<info_name>> ELSE <<>>
             quoted == IF user_value = <<"\"">> \o obj_str \o <<"\"">>
                       THEN <<info_name \o S_quoted>> ELSE <<>>
             within == IF contains(obj_str, user_value)
                       THEN <<S_contains \o info_name>> ELSE <<>>
         IN IF ~is_ascii(obj_str) THEN Raised
            ELSE extend(exact \o quoted \o within,
                        leaf_entry_types_all_modes(Tail(items), obj_str))

RECURSIVE leaf_entry_types(_, _)
leaf_entry_types(items, obj_str) ==
    IF items = <<>> THEN <<>>
    ELSE LET info_name == items[1][1]
             user_value == items[1][2]
             rest == leaf_entry_types(Tail(items), obj_str)
         IN IF user_value = obj_str THEN extend(<<info_name>>, rest)
            ELSE IF ~is_ascii(obj_str) THEN Raised
            ELSE IF user_value = <<"\"">> \o obj_str \o <<"\"">>
            THEN extend(<<info_name \o S_quoted>>, rest)
            ELSE IF contains(obj_str, user_value)
            THEN extend(<<S_contains \o info_name>>, rest)
            ELSE rest

leaf_key_names_no_fallback(obj, prefix, user_info) ==
    LET found == IF user_info.given
                 THEN leaf_entry_types(user_info.items, unicode(obj))
                 ELSE <<type_name(obj)>>
    IN IF found = Raised THEN Raised
       ELSE [i \in 1..Len(found) |-> prefix \o <<"(">> \o found[i] \o <<")">>]

\* Lines 313-334: the leaf branch.
leaf_key_names(obj, prefix, user_info) ==
    LET found == IF user_info.given
                 THEN leaf_entry_types(user_info.items, unicode(obj))
                 ELSE <<>>
        entry_types == IF found = <<>> THEN <<type_name(obj)>> ELSE found
    IN IF found = Raised THEN Raised
       ELSE [i \in 1..Len(entry_types) |-> prefix \o <<"(">> \o entry_types[i] \o <<")">>]

RECURSIVE get_key_names(_, _, _, _)
RECURSIVE dict_key_names(_, _, _, _)

get_key_names(obj, prefix, stopwords, user_info) ==
    LET words == IF stopwords = <<None>> THEN <<>>
                 ELSE [i \in 1..Len(stopwords) |-> lower(stopwords[i])]
    IN CASE obj.t = "NoneType" -> <<>>
         [] obj.t = "dict" ->
                extend(IF Len(obj.v) = 0 THEN <<prefix \o S_emptydict>> ELSE <<>>,
                       dict_key_names(obj.v, prefix, words, user_info))
         [] obj.t = "list" ->
                IF Len(obj.v) = 0 THEN <<prefix \o S_brackets>>
                ELSE get_key_names(obj.v[1], prefix \o S_brackets, words, user_info)
         [] OTHER -> leaf_key_names(obj, prefix, user_info)

\* Lines 283-298: the loop over obj.keys().
dict_key_names(items, prefix, stopwords, user_info) ==
    IF items = <<>> THEN <<>>
    ELSE LET key == items[1][1]
             value == items[1][2]
             canonical_key == IF prefix \in url_prefixes THEN S_url
                              ELSE canonicalize_key(key)
             new_prefix == prefix \o <<".">> \o canonical_key
             new_keys == IF \E i \in 1..Len(stopwords) : stopwords[i] = lower(key)
                         THEN <<new_prefix \o S_TRIMMED>>
                         ELSE get_key_names(value, new_prefix, stopwords, user_info)
         IN IF new_keys = Raised THEN Raised
            ELSE extend(new_keys, dict_key_names(Tail(items), prefix, stopwords, user_info))

----------------------------------------------------------------------------
(* Bounded inputs of the structural walker *)

\* Deepest nesting of containers drawn for the walker.
MaxDepth == 2

S_k_1 == <<"k", "_", "1">>
S_x_1_2 == <<"x", "_", "1", "_", "2">>
S_a == <<"a">>
S_Post == <<"P", "o", "s", "t">>
S_xbobx == <<"x", "b", "o", "b", "x">>
S_qbob == <<"\"", "b", "o", "b", "\"">>

Str(chars) == [t |-> "unicode", v |-> chars]

\* Non-None leaves: texts that equal, quote, contain or miss the hint values,
\* a non-ASCII text, an int and a bool.
Leaves ==
    {Str(S_bob), Str(S_xbobx), Str(<<"7">>), Str(<<>>), Str(<<NonAscii>>),
     [t |-> "int", v |-> 7], [t |-> "bool", v |-> TRUE]}

WalkKeys == {S_a, S_k_1, S_x_1_2, S_Post}

RECURSIVE Objects(_)
Objects(depth) ==
    IF depth = 0 THEN Leaves \cup {PyNone}
    ELSE LET inner == Objects(depth - 1)
         IN inner
            \cup {[t |-> "dict", v |-> <<>>], [t |-> "list", v |-> <<>>]}
            \cup {[t |-> "dict", v |-> <<<<k, o>>>>] : k \in WalkKeys, o \in inner}
            \cup {[t |-> "dict", v |-> <<<<S_a, o>>, <<S_k_1, Str(S_bob)>>>>] : o \in inner}
            \cup {[t |-> "list", v |-> <<o>>] : o \in inner}
            \cup {[t |-> "list", v |-> <<o, PyNone>>] : o \in inner}

WalkHints ==
    {NoUserInfo,
     [given |-> TRUE, items |-> <<>>],
     [given |-> TRUE, items |-> <<<<S_username, S_bob>>>>],
     [given |-> TRUE, items |-> <<<<S_username, S_qbob>>>>],
     [given |-> TRUE, items |-> <<<<S_username, <<NonAscii>>>>>>],
     [given |-> TRUE, items |-> <<<<S_username, <<>>>>>>],
     [given |-> TRUE, items |-> <<<<S_username, S_bob>>, <<S_user_id, <<"7">>>>>>],
     [given |-> TRUE, items |-> <<<<S_user_id, S_bob>>, <<S_username, S_bob>>>>]}

----------------------------------------------------------------------------
(* The structural walker applied to one value *)

InitWalk ==
    /\ pc = "walk"
    /\ input \in [obj : Objects(MaxDepth), prefix : {S_event, S_rec1},
                  stopwords : {<<None>>, <<S_POST, S_GET>>}, user_info : WalkHints]
    /\ ret = <<>>
    /\ todo = <<>>
    /\ counts = <<>>
    /\ output_file = <<>>

call_get_key_names ==
    /\ pc = "walk"
    /\ ret' = get_key_names(input.obj, input.prefix, input.stopwords, input.user_info)
    /\ pc' = "walk_done"
    /\ UNCHANGED <<input, todo, counts, output_file>>

SpecWalk == InitWalk /\ [][call_get_key_names]_vars

IsLeaf(obj) == obj.t \notin {"NoneType", "dict", "list"}

Quote(s) == <<"\"">> \o s \o <<"\"">>

Tagged(entry_type) == input.prefix \o <<"(">> \o entry_type \o <<")">>

\* The leaf's text, when the walked value is a leaf.
LeafText == unicode(input.obj)

HintItems == input.user_info.items

\* The 1-based positions of the hints that match the leaf under some mode.
MatchingHints ==
    {i \in 1..Len(HintItems) :
        \/ HintItems[i][2] = LeafText
        \/ HintItems[i][2] = Quote(LeafText)
        \/ contains(LeafText, HintItems[i][2])}

\* The quoted comparison is reached (some hint is no exact match) with a text
\* that '"{}"'.format cannot encode.
QuotedComparisonRaises ==
    /\ \E i \in 1..Len(HintItems) : HintItems[i][2] # LeafText
    /\ \E i \in 1..Len(LeafText) : LeafText[i] = NonAscii

\* C4 as claimed: for a leaf and a supplied hint mapping, one key path is
\* emitted for every (hint, mode) pair that matches, tagged name, name-quoted
\* or contains-name: a hint matching under two modes yields two key paths.
\* (Stated for the calls that do not raise.)
C4_OneVariantPerHintAndMode ==
    (/\ pc = "walk_done"
     /\ IsLeaf(input.obj)
     /\ input.user_info.given
     /\ MatchingHints # {}
     /\ ~QuotedComparisonRaises)
    => LET variants ==
               {Tagged(HintItems[i][1]) : i \in {j \in MatchingHints : HintItems[j][2] = LeafText}}
               \cup {Tagged(HintItems[i][1] \o S_quoted) :
                        i \in {j \in MatchingHints : HintItems[j][2] = Quote(LeafText)}}
               \cup {Tagged(S_contains \o HintItems[i][1]) :
                        i \in {j \in MatchingHints : contains(LeafText, HintItems[j][2])}}
       IN /\ {ret[i] : i \in 1..Len(ret)} = variants
          /\ Len(ret) = Cardinality(variants)

\* The tag of the first mode, in the order exact, quoted, containment, under
\* which hint i matches.
FirstModeTag(i) ==
    IF HintItems[i][2] = LeafText THEN HintItems[i][1]
    ELSE IF HintItems[i][2] = Quote(LeafText) THEN HintItems[i][1] \o S_quoted
    ELSE S_contains \o HintItems[i][1]

\* C4 as amended: for a leaf and a supplied hint mapping of which some hint
\* matches, one key path is emitted for every hint that matches, in the
\* mapping's iteration order, tagged by the first mode under which the hint
\* matches in the order exact, quoted, containment; a call that reaches the
\* quoted comparison with a non-ASCII leaf text raises UnicodeEncodeError
\* instead.
C4_OneVariantPerHintFirstMode ==
    (/\ pc = "walk_done"
     /\ IsLeaf(input.obj)
     /\ input.user_info.given
     /\ MatchingHints # {})
    => IF QuotedComparisonRaises THEN ret = Raised
       ELSE /\ Len(ret) = Cardinality(MatchingHints)
            /\ \A k \in 1..Len(ret) :
                   \E i \in MatchingHints :
                       /\ Cardinality({j \in MatchingHints : j <= i}) = k
                       /\ ret[k] = Tagged(FirstModeTag(i))

\* The leaf "bob" with the hint username = "bob", which equals and contains
\* it, was emitted once, as (username).
C4_Witness ==
    /\ pc = "walk_done"
    /\ input.obj = Str(S_bob)
    /\ input.user_info.given
    /\ HintItems = <<<<S_username, S_bob>>>>
    /\ ret = <<input.prefix \o <<"(">> \o S_username \o <<")">>>>

\* C5 as claimed: a leaf, None included, that no hint matches is emitted as
\* exactly one key path, prefix + "(" + type name + ")", and no call returns
\* an empty sequence.  (Stated for the calls that do not raise.)
C5_LeafAlwaysEmitted ==
    (pc = "walk_done" /\ ret # Raised) =>
        /\ ret # <<>>
        /\ (/\ input.obj.t \notin {"dict", "list"}
            /\ (input.obj.t = "NoneType" \/ ~input.user_info.given \/ MatchingHints = {}))
           => /\ Len(ret) = 1
              /\ \E name \in {S_unicode, <<"i", "n", "t">>, <<"b", "o", "o", "l">>,
                              <<"N", "o", "n", "e", "T", "y", "p", "e">>} :
                     ret[1] = Tagged(name)

\* Whether the walk of obj ends in None: None itself, a list whose first
\* element does, or a dict with a value that does.
RECURSIVE HoldsNone(_)
HoldsNone(obj) ==
    CASE obj.t = "NoneType" -> TRUE
      [] obj.t = "list" -> Len(obj.v) > 0 /\ HoldsNone(obj.v[1])
      [] obj.t = "dict" -> \E i \in 1..Len(obj.v) : HoldsNone(obj.v[i][2])
      [] OTHER -> FALSE

\* C5 as amended: a leaf other than None that no hint matches is emitted as
\* exactly one key path, prefix + "(" + type name + ")", unless the hint
\* mapping is non-empty and the leaf text is not ASCII (the quoted comparison
\* then raises UnicodeEncodeError); None is emitted as nothing, so a call
\* returns an empty sequence for None, and only for a value that holds None.
C5_NonNoneLeafEmitted ==
    pc = "walk_done" =>
        /\ (IsLeaf(input.obj) /\ (~input.user_info.given \/ MatchingHints = {}))
           => IF input.user_info.given /\ QuotedComparisonRaises THEN ret = Raised
              ELSE ret = <<Tagged(CASE input.obj.t = "unicode" -> S_unicode
                                    [] input.obj.t = "int" -> <<"i", "n", "t">>
                                    [] input.obj.t = "bool" -> <<"b", "o", "o", "l">>)>>
        /\ input.obj.t = "NoneType" => ret = <<>>
        /\ ret = <<>> => HoldsNone(input.obj)

\* The leaf "7" with the hint username = "bob", which does not match it, was
\* emitted as (unicode).
C5_Witness ==
    /\ pc = "walk_done"
    /\ input.obj = Str(<<"7">>)
    /\ input.user_info.given
    /\ HintItems = <<<<S_username, S_bob>>>>
    /\ ret = <<input.prefix \o <<"(">> \o S_unicode \o <<")">>>>

----------------------------------------------------------------------------
(* multi_output_reducer *)

\* Most values handed to one reducer call.
MaxValues == 4

\* A value is <<event_type, source>>, as the mapper yields it: both UTF-8
\* encoded byte strings, so a character outside ASCII is a byte >= 0x80.
ReducerValues ==
    {<<<<"a">>, <<"s">>>>, <<<<"b">>, <<"s">>>>, <<<<"a">>, <<"t">>>>, <<<<NonAscii>>, <<"s">>>>}

ReducerKeys == {<<"k">>, <<"k", NonAscii>>}

InitReduce ==
    /\ pc = "count"
    /\ input \in [key : ReducerKeys, values : StringsUpTo(ReducerValues, MaxValues)]
    /\ todo = input.values
    /\ counts = <<>>
    /\ ret = <<>>
    /\ output_file = <<>>

count_value_once(c, value) ==
    [x \in DOMAIN c \cup {value} |-> IF x = value THEN 1 ELSE c[x]]

\* counts[value] += 1 on a defaultdict(int)
count_value(c, value) ==
    [x \in DOMAIN c \cup {value} |->
        IF x = value THEN (IF x \in DOMAIN c THEN c[x] ELSE 0) + 1 ELSE c[x]]

\* sorted(counts.keys(), key=lambda x: counts[x], reverse=True): the sort is
\* stable, so values of equal count keep the order of counts.keys(), which
\* is the dict's hash order: any order of the keys by non-increasing count.
sorted_by_count(c) ==
    LET n == Cardinality(DOMAIN c)
    IN {order \in [1..n -> DOMAIN c] :
           /\ \A i, j \in 1..n : i # j => order[i] # order[j]
           /\ \A i \in 1..(n - 1) : c[order[i]] >= c[order[i + 1]]}

\* u"{}|{}|{}|{}".format(key, source, event_type, counts[value]) decodes its
\* byte-string arguments as ASCII: whether it raises UnicodeDecodeError.
format_raises(key, value) ==
    ~(is_ascii(key) /\ is_ascii(value[2]) /\ is_ascii(value[1]))

\* new_value.strip()
output_line(key, value, n) ==
    strip(key \o <<"|">> \o value[2] \o <<"|">> \o value[1] \o <<"|">> \o DecStr(n))

\* Lines 255-256: one pass of the counting loop.
reduce_count ==
    /\ pc = "count"
    /\ todo # <<>>
    /\ counts' = count_value(counts, Head(todo))
    /\ todo' = Tail(todo)
    /\ UNCHANGED <<pc, input, ret, output_file>>

\* Line 258: the sort, once the values are exhausted.
reduce_sort ==
    /\ pc = "count"
    /\ todo = <<>>
    /\ ret' \in sorted_by_count(counts)
    /\ pc' = "write"
    /\ UNCHANGED <<input, todo, counts, output_file>>

\* Lines 259-266: one pass of the writing loop that writes its line.
reduce_write ==
    /\ pc = "write"
    /\ ret # <<>>
    /\ ~format_raises(input.key, Head(ret))
    /\ output_file' = Append(output_file, output_line(input.key, Head(ret), counts[Head(ret)]))
    /\ ret' = Tail(ret)
    /\ UNCHANGED <<pc, input, todo, counts>>

\* Lines 267-269: one pass of the writing loop whose format raised
\* UnicodeDecodeError: logged, nothing written.
reduce_skip ==
    /\ pc = "write"
    /\ ret # <<>>
    /\ format_raises(input.key, Head(ret))
    /\ ret' = Tail(ret)
    /\ UNCHANGED <<pc, input, todo, counts, output_file>>

reduce_return ==
    /\ pc = "write"
    /\ ret = <<>>
    /\ pc' = "reduce_done"
    /\ UNCHANGED <<input, todo, counts, ret, output_file>>

NextReduce == reduce_count \/ reduce_sort \/ reduce_write \/ reduce_skip \/ reduce_return

SpecReduce == InitReduce /\ [][NextReduce]_vars

\* The distinct values of the call and how often each occurs in it.
DistinctValues == {input.values[i] : i \in 1..Len(input.values)}

Occurrences(value) == Cardinality({i \in 1..Len(input.values) : input.values[i] = value})

ExpectedLine(value) ==
    input.key \o <<"|">> \o value[2] \o <<"|">> \o value[1] \o <<"|">> \o DecStr(Occurrences(value))

\* output_file holds exactly one line for each value of the set written, with
\* that value's number of occurrences, by non-increasing number of occurrences.
WritesExactly(written) ==
    /\ Len(output_file) = Cardinality(written)
    /\ \E order \in [1..Len(output_file) -> written] :
           /\ \A value \in written : \E i \in 1..Len(output_file) : order[i] = value
           /\ \A i \in 1..Len(output_file) : output_file[i] = ExpectedLine(order[i])
           /\ \A i \in 1..(Len(output_file) - 1) :
                  Occurrences(order[i]) >= Occurrences(order[i + 1])

\* C6 as claimed: for any multiset of values the reducer writes exactly one
\* line per distinct value, with its number of occurrences, by non-increasing
\* count; the lines depend on the multiset only, not on the arrival order.
C6_OneLinePerDistinctPair ==
    pc = "reduce_done" => WritesExactly(DistinctValues)

Renders(value) ==
    \A s \in {input.key, value[1], value[2]} : \A i \in 1..Len(s) : s[i] # NonAscii

\* C6 as amended: the reducer writes exactly one line per distinct value that
\* renders as ASCII text together with the key, with its number of
\* occurrences, by non-increasing count, and no line for any other value;
\* the lines depend on the multiset only, not on the arrival order.
C6_OneLinePerRenderablePair ==
    pc = "reduce_done" => WritesExactly({value \in DistinctValues : Renders(value)})

\* Of b, a, non-ASCII, a the reducer wrote k|s|a|2 then k|s|b|1 and skipped
\* the third value.
C6_Witness ==
    /\ pc = "reduce_done"
    /\ input.key = <<"k">>
    /\ input.values = <<<<<<"b">>, <<"s">>>>, <<<<"a">>, <<"s">>>>,
                        <<<<NonAscii>>, <<"s">>>>, <<<<"a">>, <<"s">>>>>>
    /\ output_file = <<<<"k", "|", "s", "|", "a", "|", "2">>, <<"k", "|", "s", "|", "b", "|", "1">>>>

----------------------------------------------------------------------------
(* EventAnalysisTask.get_user_info_from_event and EventAnalysisTask.mapper *)

S_username_dash == <<"u", "s", "e", "r", "n", "a", "m", "e", "-">>
S_user_id_dash == <<"u", "s", "e", "r", "-", "i", "d", "-">>
S_user_id_event == <<"u", "s", "e", "r", "-", "i", "d", "-", "e", "v", "e", "n", "t">>
S_user_id_event_dash == <<"u", "s", "e", "r", "-", "i", "d", "-", "e", "v", "e", "n", "t", "-">>
S_username_from_user_id == <<"u", "s", "e", "r", "n", "a", "m", "e", "_", "f", "r", "o", "m", "_", "u", "s", "e", "r", "_", "i", "d">>
S_user_id_from_username == <<"u", "s", "e", "r", "_", "i", "d", "_", "f", "r", "o", "m", "_", "u", "s", "e", "r", "n", "a", "m", "e">>
S_key_user_id == <<"u", "s", "e", "r", "_", "i", "d">>
S_server == <<"s", "e", "r", "v", "e", "r">>
S_info_path == <<"/", "c", "o", "u", "r", "s", "e", "s", "/", "c", "1", "/", "i", "n", "f", "o">>

\* A key the decoded event does not hold (as opposed to one holding null).
Absent == [t |-> "absent", v |-> <<>>]

\* d.get(key) on a dict value: the value of the key, or None.
dict_get(d, key) ==
    IF \E i \in 1..Len(d.v) : d.v[i][1] = key
    THEN d.v[CHOOSE i \in 1..Len(d.v) : d.v[i][1] = key][2]
    ELSE PyNone

\* user_info[key] = value
set_item(items, key, value) ==
    IF \E i \in 1..Len(items) : items[i][1] = key
    THEN [i \in 1..Len(items) |-> IF items[i][1] = key THEN <<key, value>> ELSE items[i]]
    ELSE Append(items, <<key, value>>)

Returned(items) == [raised |-> "", user_info |-> [given |-> TRUE, items |-> items]]

Raises(exception) == [raised |-> exception, user_info |-> NoUserInfo]

\* Lines 197-206.  event.get('username') is None for a record without a
\* username, and None has no strip; username <= 5 compares a string with a
\* number and yields a bool, which has no len.
username_info(event) ==
    IF event.username = None THEN Raises("AttributeError")
    ELSE LET username == strip(event.username)
             key == IF Len(username) <= 5 THEN S_username_dash \o DecStr(Len(username))
                    ELSE S_username
         IN IF isdigit(username) THEN Raises("TypeError")
            ELSE Returned(<<<<key, username>>>>)

\* Lines 208-214, on the items so far.  event.get('context', {}) is None for
\* a context of null, and None has no get.
context_user_id_info(event, items) ==
    IF event.context.t = "NoneType" THEN Raises("AttributeError")
    ELSE LET user_id == IF event.context.t = "absent" THEN PyNone
                        ELSE dict_get(event.context, S_key_user_id)
         IN IF user_id.t = "NoneType" THEN Returned(items)
            ELSE LET user_id_str == unicode(user_id)
                     key == IF Len(user_id_str) <= 4
                            THEN S_user_id_dash \o DecStr(Len(user_id_str))
                            ELSE S_user_id
                 IN Returned(set_item(items, key, user_id_str))

\* Lines 216-221, on the items so far.  A payload that is no dict (null, a
\* string) has no get, and an int user_id has no len.
event_user_id_info(event, items) ==
    IF event.event.t \notin {"absent", "dict"} THEN Raises("AttributeError")
    ELSE LET event_user_id == IF event.event.t = "absent" THEN PyNone
                              ELSE dict_get(event.event, S_key_user_id)
         IN IF event_user_id.t = "NoneType" THEN Returned(items)
            ELSE IF event_user_id.t # "unicode" THEN Raises("TypeError")
            ELSE LET key == IF Len(event_user_id.v) <= 4
                            THEN S_user_id_event_dash \o DecStr(Len(event_user_id.v))
                            ELSE S_user_id_event
                 IN Returned(set_item(items, key, event_user_id.v))

\* Lines 224-232, on the items so far: the lookups in the tables init_mapper
\* loaded, which are None when no auth_user dump is configured and map
\* strings to strings otherwise.
auth_user_info(event, auth_user, items) ==
    LET user_id == IF event.context.t = "dict" THEN dict_get(event.context, S_key_user_id)
                   ELSE PyNone
        by_id == {i \in 1..Len(auth_user) :
                     user_id.t = "unicode" /\ auth_user[i][1] = user_id.v}
        items1 == IF by_id # {}
                  THEN set_item(items, S_username_from_user_id,
                                auth_user[CHOOSE i \in by_id : TRUE][2])
                  ELSE items
        by_name == {i \in 1..Len(auth_user) : auth_user[i][2] = strip(event.username)}
    IN IF by_name # {}
       THEN set_item(items1, S_user_id_from_username, auth_user[CHOOSE i \in by_name : TRUE][1])
       ELSE items1

get_user_info_from_event(event, check_user, auth_user) ==
    IF ~check_user THEN Returned(<<>>)
    ELSE LET a == username_info(event)
         IN IF a.raised # "" THEN a
            ELSE LET b == context_user_id_info(event, a.user_info.items)
                 IN IF b.raised # "" THEN b
                    ELSE LET c == event_user_id_info(event, b.user_info.items)
                         IN IF c.raised # "" THEN c
                            ELSE Returned(auth_user_info(event, auth_user, c.user_info.items))

\* eventlog.get_event_data(event): the payload when it is a dict, else None.
get_event_data(event) == IF event.event.t = "dict" THEN event.event ELSE PyNone

Skipped == [outcome |-> "skipped", pairs |-> <<>>]

Failed(exception) == [outcome |-> exception, pairs |-> <<>>]

\* Lines 170-189: the key list and the pairs yielded for it.  (encode('utf8')
\* keeps every character of the model: the non-ASCII character stands for
\* its bytes.)
emit_keys(event, config, user_info, canonical_event_type) ==
    LET event_data == get_event_data(event)
        event_keys == IF event_data.t # "NoneType"
                      THEN get_key_names(event_data, S_event, <<S_POST, S_GET>>, user_info)
                      ELSE <<>>
        context == IF event.context.t = "absent" THEN PyNone ELSE event.context
        context_keys == IF ~config.exclude_context /\ context.t # "NoneType"
                        THEN get_key_names(context, S_context, <<None>>, user_info)
                        ELSE <<>>
        attested == IF config.include_attested THEN <<S_attested>> ELSE <<>>
        key_list == extend(extend(event_keys, context_keys), attested)
    IN IF key_list = Raised THEN Failed("UnicodeEncodeError")
       ELSE [outcome |-> "emitted",
             pairs |-> [i \in 1..Len(key_list) |->
                           <<key_list[i], <<canonical_event_type, event.event_source>>>>]]

\* self.get_event_and_date_string(line): the decoded event of a line that
\* parses, as a one-element sequence, and <<>> for None.
get_event_and_date_string(line) == IF line.parses THEN <<line.event>> ELSE <<>>

\* Lines 118-189.  course_id is what eventlog.get_course_id returns for the
\* event: an id, None, or <<"raise">> for UnicodeEncodeError.
mapper(line, course_id, config) ==
    LET got == get_event_and_date_string(line)
    IN IF got = <<>> THEN Skipped
       ELSE IF course_id \in {None, <<"raise">>} THEN Skipped
       ELSE IF /\ config.course_id # <<>>
               /\ \A i \in 1..Len(config.course_id) : config.course_id[i] # course_id
       THEN Skipped
       ELSE LET event == got[1]
                info == get_user_info_from_event(event, config.check_user, config.auth_user)
            IN IF info.raised # "" THEN Failed(info.raised)
               ELSE IF event.event_type = None THEN Skipped
               ELSE LET canonical_event_type ==
                            canonicalize_event_type(event.event_type, config.exclude_implicit,
                                                    config.exclude_explicit,
                                                    config.exclude_excluded,
                                                    config.disable_slugging, info.user_info)
                    IN IF canonical_event_type = None THEN Skipped
                       ELSE IF event.event_source = None THEN Skipped
                       ELSE emit_keys(event, config, info.user_info, canonical_event_type)

----------------------------------------------------------------------------
(* Bounded inputs of the mapper *)

Dict(items) == [t |-> "dict", v |-> items]

MapperEvents ==
    [username : {None, S_bob, <<"1", "2">>},
     event_type : {None, S_play_video, S_info_path},
     event_source : {None, S_server},
     context : {Absent, PyNone, Dict(<<<<S_key_user_id, [t |-> "int", v |-> 7]>>>>)},
     event : {Absent, Str(S_bob),
              Dict(<<<<S_key_user_id, Str(<<"7">>)>>, <<S_a, Str(S_xbobx)>>>>),
              Dict(<<<<S_a, Str(<<NonAscii>>)>>>>)}]

MapperConfigs ==
    [check_user : BOOLEAN, exclude_context : BOOLEAN, include_attested : BOOLEAN,
     exclude_implicit : BOOLEAN, exclude_explicit : {FALSE}, exclude_excluded : BOOLEAN,
     disable_slugging : {FALSE}, course_id : {<<>>, <<S_foo>>},
     auth_user : {<<>>, <<<<<<"7">>, S_bob>>>>}]

----------------------------------------------------------------------------
(* The mapper applied to one line *)

InitMapper ==
    /\ pc = "mapper"
    /\ input \in [line : [event : MapperEvents, parses : BOOLEAN],
                  course_id : {S_c1, None, <<"raise">>},
                  config : MapperConfigs]
    /\ ret = <<>>
    /\ todo = <<>>
    /\ counts = <<>>
    /\ output_file = <<>>

call_mapper ==
    /\ pc = "mapper"
    /\ ret' = mapper(input.line, input.course_id, input.config)
    /\ pc' = "mapper_done"
    /\ UNCHANGED <<input, todo, counts, output_file>>

SpecMapper == InitMapper /\ [][call_mapper]_vars

\* C7: a mapper call ends by emitting its pairs or by skipping the record,
\* never in an uncaught error, and a record without event_type or
\* event_source is skipped with no pair emitted.
C7_NoUncaughtError ==
    pc = "mapper_done" =>
        /\ ret.outcome \in {"emitted", "skipped"}
        /\ (/\ input.line.parses
            /\ (input.line.event.event_type = None \/ input.line.event.event_source = None))
           => (ret.outcome = "skipped" /\ ret.pairs = <<>>)

----------------------------------------------------------------------------
(* The key canonicalizer applied to a raw key, and again to its own result *)

MaxKey == 5

KeyAlphabet == {"x", "a", "1", "_", "."}

KeySuffixes == {<<>>, S_comment, S_dynamath, S_choiceinput \o <<"1">>}

\* Raw key names: every string over the alphabet, alone and followed by one
\* of the suffix tags of INPUT_ID_REGEX.
RawKeys == {b \o s : b \in StringsUpTo(KeyAlphabet, MaxKey), s \in KeySuffixes}

InitKey ==
    /\ pc = "key"
    /\ input \in [key : RawKeys]
    /\ ret = <<>>
    /\ todo = <<>>
    /\ counts = <<>>
    /\ output_file = <<>>

call_canonicalize_key ==
    /\ pc \in {"key", "rekey"}
    /\ ret' = canonicalize_key(input.key)
    /\ pc' = IF pc = "key" THEN "key_done" ELSE "rekey_done"
    /\ UNCHANGED <<input, todo, counts, output_file>>

\* The canonical form is handed back as a raw key.
refeed_canonical_key ==
    /\ pc = "key_done"
    /\ input' = [key |-> ret]
    /\ pc' = "rekey"
    /\ UNCHANGED <<ret, todo, counts, output_file>>

NextKey == call_canonicalize_key \/ refeed_canonical_key

SpecKey == InitKey /\ [][NextKey]_vars

HasDigit(s) == \E i \in 1..Len(s) : s[i] \in Digits

NumericPlaceholders ==
    {<<"(">> \o kind \o DecStr(n) \o <<")">> :
        kind \in {<<"i", "n", "t">>, <<"h", "e", "x">>, <<"a", "l", "n", "u", "m">>},
        n \in 1..(MaxKey + Len(S_choiceinput) + 1)}

----------------------------------------------------------------------------
(* The whole module: any one of the calls above *)

Init == InitSlug \/ InitCanon \/ InitWalk \/ InitReduce \/ InitMapper \/ InitKey

Next ==
    \/ call_get_numeric_slug
    \/ call_canonicalize_event_type
    \/ call_get_key_names
    \/ reduce_count
    \/ reduce_sort
    \/ reduce_write
    \/ reduce_skip
    \/ reduce_return
    \/ call_mapper
    \/ call_canonicalize_key
    \/ refeed_canonical_key

Spec == Init /\ [][Next]_vars

====
